---- MODULE Spec2Model ----
(***************************************************************************)
(* Security Toolkit 2.0 (src/www/app.js): the secure random integer        *)
(* generator with rejection sampling, the password and passphrase          *)
(* generators built on it, and the passphrase entropy estimate.            *)
(*                                                                         *)
(* A call is followed statement by statement between two reads of the      *)
(* entropy source: pc is the position of the running call.                 *)
(***************************************************************************)
EXTENDS Integers, Sequences, FiniteSets, TLC

VARIABLES
    bip39,      \* what the global BIP39_WORDS is bound to: "undefined", "null", "empty", "loaded"
    entropy,    \* the entropy source behind crypto.getRandomValues: [pos, stride]
    pc,         \* "idle", "for" (head of a for loop), "draw" (head of the do-while), "done"
    op,         \* the running top-level call: [name, arg, options, separator]
    max,        \* secureRandom: its parameter
    maxValid,   \* secureRandom: const maxValid
    value,      \* secureRandom: let value (the last arr[0] read)
    pool,       \* generatePassword: let pool
    len,        \* generatePassword: const len
    count,      \* generatePassphrase: const count
    sep,        \* generatePassphrase: const sep
    i,          \* the for loops' let i
    password,   \* generatePassword: let password
    words,      \* generatePassphrase: const words
    result,     \* outcome of the top-level call: [kind, n, s, msg]
    draws,      \* history: calls of crypto.getRandomValues made by the running call
    discarded,  \* history: the draws the running do-while loop took again, in order
    indices,    \* history: the values secureRandom returned to the running call, in order
    form,       \* the inputs of the page: the value / checked of each, by element id
    textContent,   \* the textContent of pwdResult, phraseResult and phraseHint, by element id
    strengthWidth, \* pwdStrength.style.width, in percent
    promises,   \* the copyToClipboard promises whose then-callback has not run yet, in order
    timers,     \* the setTimeout callbacks that have not run yet, in the order they were set
    clipboard,  \* history: the texts handleOutputClick handed to copyToClipboard, in order
    generated   \* history: the passwords handleGeneratePassword put in pwdResult, in order

vars == <<bip39, entropy, pc, op, max, maxValid, value, pool, len, count, sep, i,
          password, words, result, draws, discarded, indices,
          form, textContent, strengthWidth, promises, timers, clipboard, generated>>

\* the page and the event loop, which a call made on its own leaves alone
page == <<form, textContent, strengthWidth, promises, timers, clipboard, generated>>

-----------------------------------------------------------------------------
(* Numbers up to 2^32.  TLC's integers are 32-bit signed, so the value     *)
(* hi * 2^16 + lo of a JS number or of a Uint32Array element is kept as    *)
(* [hi, lo] with 0 <= lo < 2^16; the operators below are the exact integer *)
(* operations of the source on that representation, for a small integer m  *)
(* (0 < m < 2^15, so that no intermediate value exceeds 2^31 - 1).         *)

Base == 65536

Big(h, l) == [hi |-> h, lo |-> l]

BigOfInt(n) == Big(n \div Base, n % Base)

\* 2**32
TwoPow32 == Big(Base, 0)

\* the largest element value of a Uint32Array, 2^32 - 1
Uint32Max == Big(Base - 1, Base - 1)

\* a < b
BigLess(a, b) == a.hi < b.hi \/ (a.hi = b.hi /\ a.lo < b.lo)

\* Math.floor(a / m)
BigDivFloor(a, m) ==
    LET r == a.hi % m
    IN  Big(a.hi \div m, (r * Base + a.lo) \div m)

\* a * m
BigMul(a, m) ==
    LET p == a.lo * m
    IN  Big((a.hi * m) + (p \div Base), p % Base)

\* a % m
BigMod(a, m) == ((a.hi % m) * Base + a.lo) % m

\* a - k for an integer 0 <= k < 2^16
BigMinus(a, k) ==
    IF a.lo >= k THEN Big(a.hi, a.lo - k) ELSE Big(a.hi - 1, (a.lo + Base) - k)

-----------------------------------------------------------------------------
(* The static tables.                                                      *)

\* SETS: strings are sequences of one-character strings
SETS == [
    lower   |-> <<"a","b","c","d","e","f","g","h","i","j","k","l","m",
                  "n","o","p","q","r","s","t","u","v","w","x","y","z">>,
    upper   |-> <<"A","B","C","D","E","F","G","H","I","J","K","L","M",
                  "N","O","P","Q","R","S","T","U","V","W","X","Y","Z">>,
    numbers |-> <<"0","1","2","3","4","5","6","7","8","9">>,
    symbols |-> <<"!","@","#","$","%","^","&","*","(",")","_","+","-",
                  "=","[","]","{","}","|",";",":",",",".","<",">","?">> ]

\* the number of words of the BIP39 list
WordListSize == 2048

\* the i-th word of the list (i from 0): the words are distinct, each one token
Word(k) == "w" \o ToString(k)

\* BIP39_WORDS.length, and BIP39_WORDS[k], when the global is bound to an array
\* ("empty": an array without elements)
WordsLength == IF bip39 = "loaded" THEN WordListSize ELSE 0

WordsAt(k) == Word(k)

\* typeof BIP39_WORDS === 'undefined' || !BIP39_WORDS
WordsMissing == bip39 \in {"undefined", "null"}

\* a guard that forgets the array without elements
WordsUnavailableButEmpty == WordsMissing

\* typeof BIP39_WORDS === 'undefined' || !BIP39_WORDS || BIP39_WORDS.length === 0
WordsUnavailable == WordsMissing \/ WordsLength = 0

-----------------------------------------------------------------------------
(* JS values handed to the generators: undefined, a number, a string.      *)

Undefined == [t |-> "undefined", n |-> 0, s |-> <<>>]
Num(k)    == [t |-> "number",    n |-> k, s |-> <<>>]
Str(cs)   == [t |-> "string",    n |-> 0, s |-> cs]
NaN       == [t |-> "NaN",       n |-> 0, s |-> <<>>]
NegInfinity == [t |-> "-Infinity", n |-> 0, s |-> <<>>]
PosInfinity == [t |-> "Infinity",  n |-> 0, s |-> <<>>]

Digits == <<"0","1","2","3","4","5","6","7","8","9">>

IsDigit(c) == \E d \in 1..10 : Digits[d] = c

DigitValue(c) == (CHOOSE d \in 1..10 : Digits[d] = c) - 1

\* the decimal digits of a non-negative integer
RECURSIVE NatToString(_)
NatToString(n) ==
    IF n < 10 THEN <<Digits[n + 1]>>
    ELSE Append(NatToString(n \div 10), Digits[(n % 10) + 1])

\* ToString, the first step of parseInt on its argument
ToStr(v) ==
    CASE v.t = "undefined" -> <<"u","n","d","e","f","i","n","e","d">>
      [] v.t = "string"    -> v.s
      [] v.t = "NaN"       -> <<"N","a","N">>
      [] v.t = "number"    -> IF v.n < 0 THEN <<"-">> \o NatToString(0 - v.n)
                              ELSE NatToString(v.n)

\* leading white space is skipped
RECURSIVE TrimStart(_)
TrimStart(cs) ==
    IF cs # <<>> /\ Head(cs) = " " THEN TrimStart(Tail(cs)) ELSE cs

\* the value of the longest prefix of decimal digits, from the accumulator acc
RECURSIVE DigitsValue(_, _)
DigitsValue(cs, acc) ==
    IF cs # <<>> /\ IsDigit(Head(cs))
    THEN DigitsValue(Tail(cs), (acc * 10) + DigitValue(Head(cs)))
    ELSE acc

\* parseInt(v, 10): NaN unless an optional sign and at least one digit lead the string
ParseInt(v) ==
    LET t      == TrimStart(ToStr(v))
        signed == t # <<>> /\ Head(t) \in {"-", "+"}
        body   == IF signed THEN Tail(t) ELSE t
        mag    == DigitsValue(body, 0)
    IN  IF body = <<>> \/ ~IsDigit(Head(body)) THEN NaN
        ELSE IF signed /\ Head(t) = "-" THEN Num(0 - mag)
        ELSE Num(mag)

\* x || d for a number x: NaN and 0 are falsy
OrDefault(x, d) == IF x.t = "NaN" \/ x.n = 0 THEN d ELSE x.n

Min(a, b) == IF a < b THEN a ELSE b

Max(a, b) == IF a > b THEN a ELSE b

-----------------------------------------------------------------------------
(* The entropy source.  A stream of 32-bit values goes round the five     *)
(* draws of DrawAt for ever, from a first one and by a fixed stride; each  *)
(* draw is one of the values that matter to a caller that reduces it       *)
(* modulo m and takes another one from mv on.                              *)

\* the largest stride of a stream
MaxStride == 2

\* the draws one do-while loop is followed through before an accepted one
MaxDiscarded == 3

\* the draws a stream is made of: see DrawAt
Selectors == 1..5

Streams == [pos : Selectors, stride : 0..MaxStride]

\* an arbitrary value in the middle of the range: 0x9E37 * 2^16 + 0x79B9
MidDraw == Big(40503, 31161)

\* the Uint32 a draw delivers
DrawAt(sel, m, mv) ==
    CASE sel = 1 -> Big(0, 0)
      [] sel = 2 -> IF BigLess(Uint32Max, mv) THEN Uint32Max ELSE mv
      [] sel = 3 -> BigMinus(mv, 1)
      [] sel = 4 -> Uint32Max
      [] sel = 5 -> MidDraw

\* crypto.getRandomValues(arr); arr[0]
NextDraw == DrawAt(entropy.pos, max, maxValid)

Advance == [entropy EXCEPT !.pos = ((entropy.pos - 1 + entropy.stride) % 5) + 1]

-----------------------------------------------------------------------------
(* secureRandom                                                            *)

MsgMaxPositive == "secureRandom: max must be positive"
MsgNoCharset   == "At least one character set must be selected"
MsgNoWordList  == "BIP39 word list not loaded"

NoResult     == [kind |-> "none",   v |-> Undefined, msg |-> ""]
Throw(m)     == [kind |-> "throw",  v |-> Undefined, msg |-> m]
Return(val)  == [kind |-> "return", v |-> val,       msg |-> ""]

\* a threshold that rejects nothing: every 32-bit draw is reduced modulo max
MaxValidUnrounded(m) == TwoPow32

\* const maxValid = Math.floor(2**32 / max) * max
MaxValidOf(m) == BigMul(BigDivFloor(TwoPow32, m), m)

\* a loop that goes on while the draw is below the threshold
DrawnAgainInverted(v, mv) == BigLess(v, mv)

\* while (value >= maxValid)
DrawnAgain(v, mv) == ~BigLess(v, mv)

\* a reduction into 1..max instead of 0..max-1
ReducedOneBased(v, m) == BigMod(v, m) + 1

\* return value % max
Reduced(v, m) == BigMod(v, m)

\* one pass of the do-while body: a read of the entropy source
ReadEntropy ==
    /\ value' = NextDraw
    /\ draws' = draws + 1
    /\ entropy' = Advance

\* the loop goes round: the draw is discarded
Discard ==
    /\ Len(discarded) < MaxDiscarded
    /\ discarded' = Append(discarded, value')
    /\ pc' = "draw"
    /\ UNCHANGED <<indices, i, password, words, result>>

\* the statements of secureRandom up to the loop, for a max > 1
EnterLoop(m) ==
    /\ max' = m
    /\ maxValid' = MaxValidOf(m)
    /\ discarded' = <<>>
    /\ pc' = "draw"

-----------------------------------------------------------------------------
(* generatePassword, generatePassphrase, calculateEntropy                  *)

\* a pool with the upper-case letters put first
BuildPoolUpperFirst(options) ==
    (IF options.upper THEN SETS.upper ELSE <<>>)
    \o (IF options.lower THEN SETS.lower ELSE <<>>)
    \o (IF options.numbers THEN SETS.numbers ELSE <<>>)
    \o (IF options.symbols THEN SETS.symbols ELSE <<>>)

\* a pool that falls back on the lower-case letters when nothing is selected
BuildPoolDefaulted(options) ==
    IF options.lower \/ ~(options.upper \/ options.numbers \/ options.symbols)
    THEN SETS.lower
         \o (IF options.upper THEN SETS.upper ELSE <<>>)
         \o (IF options.numbers THEN SETS.numbers ELSE <<>>)
         \o (IF options.symbols THEN SETS.symbols ELSE <<>>)
    ELSE (IF options.upper THEN SETS.upper ELSE <<>>)
         \o (IF options.numbers THEN SETS.numbers ELSE <<>>)
         \o (IF options.symbols THEN SETS.symbols ELSE <<>>)

\* the pool: the enabled sets, in the order lower, upper, numbers, symbols
BuildPool(options) ==
    (IF options.lower THEN SETS.lower ELSE <<>>)
    \o (IF options.upper THEN SETS.upper ELSE <<>>)
    \o (IF options.numbers THEN SETS.numbers ELSE <<>>)
    \o (IF options.symbols THEN SETS.symbols ELSE <<>>)

\* Math.max(6, Math.min(64, parseInt(length, 10) || 16))
LenOf(length) == Max(6, Min(64, OrDefault(ParseInt(length), 16)))

\* Math.max(3, Math.min(12, parseInt(wordCount, 10) || 6))
CountOf(wordCount) == Max(3, Min(12, OrDefault(ParseInt(wordCount), 6)))

\* s.slice(0, n) for 0 <= n
Slice(cs, n) == SubSeq(cs, 1, Min(n, Len(cs)))

\* a separator that is not cut
SepOfUncut(separator) ==
    IF separator.t = "undefined" \/ separator.s = <<>> THEN <<"-">> ELSE separator.s

\* (separator || '-').slice(0, 10): undefined and the empty string are falsy
SepOf(separator) ==
    Slice(IF separator.t = "undefined" \/ separator.s = <<>> THEN <<"-">> ELSE separator.s, 10)

\* words.join(sep): the words, each one token, with the characters of sep between them
RECURSIVE Join(_, _)
Join(ws, sp) ==
    IF ws = <<>> THEN <<>>
    ELSE IF Len(ws) = 1 THEN ws
    ELSE <<Head(ws)>> \o sp \o Join(Tail(ws), sp)

\* Math.log2 of a list size: -Infinity at 0, the exponent at a power of two
Log2(n) == IF n = 0 THEN NegInfinity ELSE Num(CHOOSE e \in 0..30 : 2^e = n)

\* x * k for a number or infinity x and an integer k
Times(x, k) ==
    CASE x.t = "number" -> Num(x.n * k)
      [] x.t = "-Infinity" -> IF k > 0 THEN NegInfinity ELSE IF k < 0 THEN PosInfinity ELSE NaN
      [] x.t = "Infinity"  -> IF k > 0 THEN PosInfinity ELSE IF k < 0 THEN NegInfinity ELSE NaN
      [] OTHER -> NaN

\* the value calculateEntropy(wordCount) returns
EntropyOf(wordCount) ==
    IF WordsMissing THEN Num(0) ELSE Times(Log2(WordsLength), wordCount)

-----------------------------------------------------------------------------
(* The arguments the calls are made with.                                  *)

MaxInputs == {-5, -1, 0, 1, 2, 3, 5, 7, 10, 88, 256, 2048, 2049}

LengthInputs ==
    {Undefined, Str(<<>>), Str(<<"a","b","c">>), Str(<<"1","2">>), Str(<<"8","p","x">>),
     Num(-3), Num(0), Num(5), Num(6), Num(7), Num(16), Num(64), Num(65), Num(1000)}

OptionInputs == [lower : BOOLEAN, upper : BOOLEAN, numbers : BOOLEAN, symbols : BOOLEAN]

NoOptions == [lower |-> FALSE, upper |-> FALSE, numbers |-> FALSE, symbols |-> FALSE]

WordCountInputs ==
    {Undefined, Str(<<"a","b","c">>), Str(<<"4">>),
     Num(-2), Num(0), Num(2), Num(3), Num(6), Num(12), Num(13), Num(100)}

SeparatorInputs ==
    {Undefined, Str(<<>>), Str(<<"-">>), Str(<<" ">>), Str(<<".",".">>),
     Str(<<"0","1","2","3","4","5","6","7","8","9">>),
     Str(<<"0","1","2","3","4","5","6","7","8","9","a">>),
     Str(<<"0","1","2","3","4","5","6","7","8","9","a","b","c">>)}

EntropyInputs == {-1, 0, 1, 3, 6, 12, 13}

Call(name, arg, options, separator) ==
    [name |-> name, arg |-> arg, options |-> options, separator |-> separator]

-----------------------------------------------------------------------------
(* The calls.                                                              *)

\* a guard that lets 0 through: max < 0 instead of max <= 0; the loop then ends on its
\* first draw (value >= NaN is false) and value % 0 is NaN
SecureRandomCallZero(m) ==
    /\ pc = "idle"
    /\ op' = Call("secureRandom", Num(m), NoOptions, Undefined)
    /\ IF m < 0
       THEN /\ result' = Throw(MsgMaxPositive)
            /\ draws' = draws
       ELSE /\ result' = Return(IF m = 0 THEN NaN ELSE Num(0))
            /\ draws' = IF m = 0 THEN draws + 1 ELSE draws
    /\ pc' = "done"
    /\ UNCHANGED <<bip39, entropy, max, maxValid, value, pool, len, count, sep, i,
                   password, words, discarded, indices>>
    /\ UNCHANGED page

\* secureRandom(m), called on its own
SecureRandomCall(m) ==
    /\ pc = "idle"
    /\ op' = Call("secureRandom", Num(m), NoOptions, Undefined)
    /\ IF m <= 0
       THEN /\ result' = Throw(MsgMaxPositive)
            /\ pc' = "done"
            /\ UNCHANGED <<max, maxValid, discarded>>
       ELSE IF m = 1
       THEN /\ result' = Return(Num(0))
            /\ pc' = "done"
            /\ UNCHANGED <<max, maxValid, discarded>>
       ELSE /\ EnterLoop(m)
            /\ UNCHANGED result
    /\ UNCHANGED <<bip39, entropy, value, pool, len, count, sep, i, password, words,
                   draws, indices>>
    /\ UNCHANGED page

\* the do-while loop of a secureRandom called on its own
SecureRandomDraw ==
    /\ pc = "draw"
    /\ op.name = "secureRandom"
    /\ ReadEntropy
    /\ IF DrawnAgain(value', maxValid)
       THEN Discard
       ELSE /\ result' = Return(Num(Reduced(value', max)))
            /\ indices' = Append(indices, Reduced(value', max))
            /\ pc' = "done"
            /\ UNCHANGED <<discarded, i, password, words>>
    /\ UNCHANGED <<bip39, op, max, maxValid, pool, len, count, sep>>
    /\ UNCHANGED page

\* generatePassword(length, options), up to the for loop
GeneratePasswordCall(length, options) ==
    /\ pc = "idle"
    /\ op' = Call("generatePassword", length, options, Undefined)
    /\ pool' = BuildPool(options)
    /\ IF pool' = <<>>
       THEN /\ result' = Throw(MsgNoCharset)
            /\ pc' = "done"
            /\ UNCHANGED <<len, password, i>>
       ELSE /\ len' = LenOf(length)
            /\ password' = <<>>
            /\ i' = 0
            /\ pc' = "for"
            /\ UNCHANGED result
    /\ UNCHANGED <<bip39, entropy, max, maxValid, value, count, sep, words,
                   draws, discarded, indices>>
    /\ UNCHANGED page

\* for (let i = 0; i < len; i++): the call secureRandom(pool.length), or the return
GeneratePasswordFor ==
    /\ pc = "for"
    /\ op.name = "generatePassword"
    /\ IF i < len
       THEN IF Len(pool) <= 0
            THEN /\ result' = Throw(MsgMaxPositive)
                 /\ pc' = "done"
                 /\ UNCHANGED <<max, maxValid, discarded, password, i, indices>>
            ELSE IF Len(pool) = 1
            THEN /\ password' = Append(password, pool[0 + 1])
                 /\ indices' = Append(indices, 0)
                 /\ i' = i + 1
                 /\ pc' = "for"
                 /\ UNCHANGED <<max, maxValid, discarded, result>>
            ELSE /\ EnterLoop(Len(pool))
                 /\ UNCHANGED <<password, i, indices, result>>
       ELSE /\ result' = Return(Str(password))
            /\ pc' = "done"
            /\ UNCHANGED <<max, maxValid, discarded, password, i, indices>>
    /\ UNCHANGED <<bip39, entropy, op, value, pool, len, count, sep, words, draws>>
    /\ UNCHANGED page

\* the do-while loop of secureRandom(pool.length), and password += pool[...]; i++
GeneratePasswordDraw ==
    /\ pc = "draw"
    /\ op.name = "generatePassword"
    /\ ReadEntropy
    /\ IF DrawnAgain(value', maxValid)
       THEN Discard
       ELSE /\ password' = Append(password, pool[Reduced(value', max) + 1])
            /\ indices' = Append(indices, Reduced(value', max))
            /\ i' = i + 1
            /\ pc' = "for"
            /\ UNCHANGED <<discarded, words, result>>
    /\ UNCHANGED <<bip39, op, max, maxValid, pool, len, count, sep>>
    /\ UNCHANGED page

\* generatePassphrase(wordCount, separator), up to the for loop
GeneratePassphraseCall(wordCount, separator) ==
    /\ pc = "idle"
    /\ op' = Call("generatePassphrase", wordCount, NoOptions, separator)
    /\ IF WordsUnavailable
       THEN /\ result' = Throw(MsgNoWordList)
            /\ pc' = "done"
            /\ UNCHANGED <<count, sep, words, i>>
       ELSE /\ count' = CountOf(wordCount)
            /\ sep' = SepOf(separator)
            /\ words' = <<>>
            /\ i' = 0
            /\ pc' = "for"
            /\ UNCHANGED result
    /\ UNCHANGED <<bip39, entropy, max, maxValid, value, pool, len, password,
                   draws, discarded, indices>>
    /\ UNCHANGED page

\* for (let i = 0; i < count; i++): the call secureRandom(BIP39_WORDS.length), or the return
GeneratePassphraseFor ==
    /\ pc = "for"
    /\ op.name = "generatePassphrase"
    /\ IF i < count
       THEN IF WordsLength <= 0
            THEN /\ result' = Throw(MsgMaxPositive)
                 /\ pc' = "done"
                 /\ UNCHANGED <<max, maxValid, discarded, words, i, indices>>
            ELSE IF WordsLength = 1
            THEN /\ words' = Append(words, WordsAt(0))
                 /\ indices' = Append(indices, 0)
                 /\ i' = i + 1
                 /\ pc' = "for"
                 /\ UNCHANGED <<max, maxValid, discarded, result>>
            ELSE /\ EnterLoop(WordsLength)
                 /\ UNCHANGED <<words, i, indices, result>>
       ELSE /\ result' = Return(Str(Join(words, sep)))
            /\ pc' = "done"
            /\ UNCHANGED <<max, maxValid, discarded, words, i, indices>>
    /\ UNCHANGED <<bip39, entropy, op, value, pool, len, count, sep, password, draws>>
    /\ UNCHANGED page

\* the do-while loop of secureRandom(BIP39_WORDS.length), and words.push(BIP39_WORDS[...]); i++
GeneratePassphraseDraw ==
    /\ pc = "draw"
    /\ op.name = "generatePassphrase"
    /\ ReadEntropy
    /\ IF DrawnAgain(value', maxValid)
       THEN Discard
       ELSE /\ words' = Append(words, WordsAt(Reduced(value', max)))
            /\ indices' = Append(indices, Reduced(value', max))
            /\ i' = i + 1
            /\ pc' = "for"
            /\ UNCHANGED <<discarded, password, result>>
    /\ UNCHANGED <<bip39, op, max, maxValid, pool, len, count, sep>>
    /\ UNCHANGED page

\* calculateEntropy(wordCount)
CalculateEntropyCall(wordCount) ==
    /\ pc = "idle"
    /\ op' = Call("calculateEntropy", Num(wordCount), NoOptions, Undefined)
    /\ result' = Return(EntropyOf(wordCount))
    /\ pc' = "done"
    /\ UNCHANGED <<bip39, entropy, max, maxValid, value, pool, len, count, sep, i,
                   password, words, draws, discarded, indices>>
    /\ UNCHANGED page

-----------------------------------------------------------------------------
(* The page: the elements of initializeElements that the handlers read and *)
(* write.  A text is a sequence of characters and word tokens; a text the  *)
(* handlers write as a literal is one token, in Latin letters.             *)

\* every input empty and every box unchecked
FormBlank ==
    [pwdLength |-> <<>>, pLower |-> FALSE, pUpper |-> FALSE, pNumbers |-> FALSE,
     pSymbols |-> FALSE, wordCount |-> <<>>, separator |-> <<>>]

\* the page once init() has run: nothing generated, nothing copied, nothing pending
InitPage ==
    /\ textContent = [pwdResult |-> <<>>, phraseResult |-> <<>>, phraseHint |-> <<>>]
    /\ strengthWidth = 0
    /\ promises = <<>>
    /\ timers = <<>>
    /\ clipboard = <<>>
    /\ generated = <<>>

-----------------------------------------------------------------------------
(* The specifications: one call, made with any of the arguments, on any of *)
(* the entropy streams.                                                    *)

\* no call is running
InitLocals ==
    /\ entropy \in Streams
    /\ pc = "idle"
    /\ op = Call("none", Undefined, NoOptions, Undefined)
    /\ max = 0
    /\ maxValid = Big(0, 0)
    /\ value = Big(0, 0)
    /\ pool = <<>>
    /\ len = 0
    /\ count = 0
    /\ sep = <<>>
    /\ i = 0
    /\ password = <<>>
    /\ words = <<>>
    /\ result = NoResult
    /\ draws = 0
    /\ discarded = <<>>
    /\ indices = <<>>

\* a call made on its own: the page stays as it was loaded
InitCall == InitLocals /\ form = FormBlank /\ InitPage

\* secureRandom
InitRandom == bip39 = "loaded" /\ InitCall

NextRandom ==
    \/ \E m \in MaxInputs : SecureRandomCall(m)
    \/ SecureRandomDraw

SpecRandom == InitRandom /\ [][NextRandom]_vars

\* generatePassword
InitPassword == bip39 = "loaded" /\ InitCall

NextPassword ==
    \/ \E length \in LengthInputs, options \in OptionInputs :
          GeneratePasswordCall(length, options)
    \/ GeneratePasswordFor
    \/ GeneratePasswordDraw

SpecPassword == InitPassword /\ [][NextPassword]_vars

\* generatePassphrase and calculateEntropy, whatever BIP39_WORDS is bound to
InitPassphrase == bip39 \in {"undefined", "null", "empty", "loaded"} /\ InitCall

NextPassphrase ==
    \/ \E wordCount \in WordCountInputs, separator \in SeparatorInputs :
          GeneratePassphraseCall(wordCount, separator)
    \/ GeneratePassphraseFor
    \/ GeneratePassphraseDraw
    \/ \E wordCount \in EntropyInputs : CalculateEntropyCall(wordCount)

SpecPassphrase == InitPassphrase /\ [][NextPassphrase]_vars

-----------------------------------------------------------------------------
(* secureRandom: the claims                                                *)

\* a + k for an integer 0 <= k < 2^16
BigAdd(a, k) == Big(a.hi + ((a.lo + k) \div Base), (a.lo + k) % Base)

\* a <= b
BigLeq(a, b) == ~BigLess(b, a)

\* mv is the largest multiple of m that is at most 2^32
IsLimit(mv, m) ==
    /\ BigMod(mv, m) = 0
    /\ BigLeq(mv, TwoPow32)
    /\ BigLess(TwoPow32, BigAdd(mv, m))

\* below mv, every k in [0, m) is the residue of exactly floor(2^32 / m) values:
\* k, k + m, ..., k + (q - 1) * m are below mv, k + q * m is not, and q is that quotient
SamePreimages(mv, m) ==
    LET q == BigDivFloor(mv, m)
    IN  /\ BigLeq(BigMul(q, m), TwoPow32)
        /\ BigLess(TwoPow32, BigAdd(BigMul(q, m), m))
        /\ \A k \in 0..(m - 1) :
              /\ BigLess(BigAdd(BigMul(BigMinus(q, 1), m), k), mv)
              /\ BigLeq(mv, BigAdd(BigMul(q, m), k))

InSecureRandom == op.name = "secureRandom" /\ pc \in {"draw", "done"}

Returned == pc = "done" /\ result.kind = "return"

\* C1: for every max > 1, whether or not it divides 2^32, the threshold of the loop is
\* limit = floor(2^32 / max) * max; every draw >= limit is discarded and another one
\* taken, the value returned is draw % max for the first draw < limit, and every value
\* in [0, max) has the same number, floor(2^32 / max), of accepted 32-bit preimages.
C1_RejectionSampling ==
    (InSecureRandom /\ op.arg.n > 1) =>
        /\ max = op.arg.n
        /\ IsLimit(maxValid, max)
        /\ SamePreimages(maxValid, max)
        /\ \A j \in 1..Len(discarded) : BigLeq(maxValid, discarded[j])
        /\ Returned =>
              /\ BigLess(value, maxValid)
              /\ draws = Len(discarded) + 1
              /\ result.v = Num(BigMod(value, max))
        /\ (pc = "draw" \/ result.kind = "none") => draws = Len(discarded)

\* a call with a max that does not divide 2^32 returns after a discarded draw
C1_Witness ==
    /\ InSecureRandom /\ Returned
    /\ op.arg.n = 2049
    /\ Len(discarded) >= 1
    /\ discarded[1] = Uint32Max

\* C2: for every max > 1 and every stream of draws, a value secureRandom(max) returns is
\* an integer with 0 <= value < max; secureRandom(1) returns 0 and reads no entropy.
C2_RangeContainment ==
    (op.name = "secureRandom" /\ pc = "done") =>
        /\ op.arg.n > 1 =>
              (result.kind = "return" =>
                  /\ result.v.t = "number"
                  /\ 0 <= result.v.n
                  /\ result.v.n < op.arg.n)
        /\ op.arg.n = 1 => (result = Return(Num(0)) /\ draws = 0)

\* the largest value of the range is returned, and so is secureRandom(1)
C2_Witness ==
    /\ op.name = "secureRandom" /\ Returned
    /\ \/ (op.arg.n = 88 /\ result.v.n = 87 /\ draws = 2)
       \/ (op.arg.n = 1 /\ draws = 0)

\* C3: secureRandom(0) and secureRandom(max) for a negative max throw the error
\* "max must be positive"; they return no value and read no entropy.
C3_NonPositiveMax ==
    (op.name = "secureRandom" /\ op.arg.n <= 0) =>
        /\ pc = "done"
        /\ result = Throw(MsgMaxPositive)
        /\ draws = 0
        /\ indices = <<>>

\* secureRandom(0) has thrown
C3_Witness ==
    /\ op.name = "secureRandom" /\ op.arg.n = 0
    /\ result.kind = "throw"

-----------------------------------------------------------------------------
(* generatePassword: the claims                                            *)

Range(f) == {f[k] : k \in DOMAIN f}

Categories == <<SETS.lower, SETS.upper, SETS.numbers, SETS.symbols>>

Flags(o) == <<o.lower, o.upper, o.numbers, o.symbols>>

\* the number of pool characters that precede those of category c (c = 5: all of them)
RECURSIVE Offset(_, _)
Offset(o, c) ==
    IF c = 1 THEN 0
    ELSE Offset(o, c - 1) + (IF Flags(o)[c - 1] THEN Len(Categories[c - 1]) ELSE 0)

\* a length argument that is no number at all: missing, or a string without leading digits
NonNumeric(v) == v.t = "undefined" \/ (v.t = "string" /\ (v.s = <<>> \/ ~IsDigit(Head(v.s))))

InPassword == op.name = "generatePassword" /\ pc # "idle"

\* C4: for every integer length, 0 and negative ones included, and every options with
\* a flag set, generatePassword returns exactly max(6, min(64, length)) characters
\* (6 for length 0, 64 for length 1000); a non-numeric or missing length gives 16.
C4_LengthClamped ==
    (InPassword /\ Returned) =>
        /\ op.arg.t = "number" => Len(result.v.s) = Max(6, Min(64, op.arg.n))
        /\ NonNumeric(op.arg) => Len(result.v.s) = 16

\* C6: the pool is the enabled sets one after the other in the order lower, upper,
\* numbers, symbols; secureRandom is called with max = pool.length and the i-th character
\* of the password is the pool character at the i-th value it returned, so every character
\* is one of an enabled set.
C6_PoolAndDrawOrder ==
    (InPassword /\ pool # <<>>) =>
        /\ Len(pool) = Offset(op.options, 5)
        /\ \A c \in 1..4 : Flags(op.options)[c] =>
              \A k \in 1..Len(Categories[c]) :
                  pool[Offset(op.options, c) + k] = Categories[c][k]
        /\ pc = "draw" => max = Len(pool)
        /\ Len(indices) = Len(password)
        /\ \A j \in 1..Len(password) :
              /\ indices[j] \in 0..(Len(pool) - 1)
              /\ password[j] = pool[indices[j] + 1]
              /\ \E c \in 1..4 : Flags(op.options)[c] /\ password[j] \in Range(Categories[c])
        /\ Returned => result.v = Str(password)

\* a password of digits and symbols whose characters come from both sets
C6_Witness ==
    /\ InPassword /\ Returned
    /\ op.options = [lower |-> FALSE, upper |-> FALSE, numbers |-> TRUE, symbols |-> TRUE]
    /\ result.v.s[1] = "0"
    /\ result.v.s[2] = "?"

\* C7: with the four flags false generatePassword throws "At least one character set
\* must be selected" whatever the length; it returns no string, falls back on no
\* character set and reads no entropy.
C7_EmptyPoolFails ==
    (InPassword /\ op.options = NoOptions) =>
        /\ pc = "done"
        /\ result = Throw(MsgNoCharset)
        /\ pool = <<>>
        /\ password = <<>>
        /\ draws = 0

\* the call has thrown for an out-of-range length
C7_Witness ==
    /\ InPassword /\ op.options = NoOptions
    /\ op.arg = Num(1000)
    /\ result.kind = "throw"

-----------------------------------------------------------------------------
(* generatePassphrase and calculateEntropy: the claims                     *)

InPassphrase == op.name = "generatePassphrase" /\ pc # "idle"

\* C5: for every integer wordCount, 0 and negative ones included, generatePassphrase
\* with the list loaded returns exactly max(3, min(12, wordCount)) words, each the list
\* word at a value returned by secureRandom(2048), in draw order; a non-numeric or
\* missing wordCount gives 6 words.
C5_WordCountClamped ==
    (InPassphrase /\ Returned) =>
        /\ op.arg.t = "number" => Len(words) = Max(3, Min(12, op.arg.n))
        /\ NonNumeric(op.arg) => Len(words) = 6
        /\ max = WordListSize
        /\ Len(indices) = Len(words)
        /\ \A j \in 1..Len(words) :
              indices[j] \in 0..(WordListSize - 1) /\ words[j] = Word(indices[j])

\* C8: when BIP39_WORDS is undefined, null or empty, generatePassphrase throws "BIP39
\* word list not loaded" for every wordCount and separator: it returns no passphrase,
\* partial or empty, and does not call secureRandom.
C8_WordListUnavailable ==
    (InPassphrase /\ bip39 # "loaded") =>
        /\ pc = "done"
        /\ result = Throw(MsgNoWordList)
        /\ words = <<>>
        /\ indices = <<>>
        /\ draws = 0

\* the call has thrown for an array without elements
C8_Witness ==
    /\ InPassphrase /\ bip39 = "empty"
    /\ result.kind = "throw"

\* the joiner the claim describes: "-" for a missing or empty separator, otherwise the
\* first min(10, |separator|) characters of the separator
Joiner(separator) ==
    IF separator.t = "undefined" \/ Len(separator.s) = 0 THEN <<"-">>
    ELSE [k \in 1..Min(10, Len(separator.s)) |-> separator.s[k]]

\* C9: the passphrase is its words with the joiner between two consecutive ones, and
\* nowhere else: the joiner occurs (number of words - 1) times as the joiner;
\* generatePassphrase(6, "-") is 6 list words and 5 single hyphens.
C9_SeparatorJoin ==
    (InPassphrase /\ Returned) =>
        LET jn == Joiner(op.separator)
            L  == Len(jn)
            n  == Len(words)
            s  == result.v.s
        IN  /\ sep = jn
            /\ result.v.t = "string"
            /\ Len(s) = n + ((n - 1) * L)
            /\ \A j \in 1..n : s[((j - 1) * (L + 1)) + 1] = words[j]
            /\ \A j \in 1..(n - 1) : \A k \in 1..L : s[((j - 1) * (L + 1)) + 1 + k] = jn[k]
            /\ (op.arg = Num(6) /\ op.separator = Str(<<"-">>)) =>
                  /\ Len(s) = 11
                  /\ \A k \in 1..5 : s[2 * k] = "-"
                  /\ \A k \in 1..6 : \E w \in 0..(WordListSize - 1) : s[(2 * k) - 1] = Word(w)

\* a passphrase joined by a separator of 13 characters cut to 10
C9_Witness ==
    /\ InPassphrase /\ Returned
    /\ Len(op.separator.s) = 13
    /\ Len(sep) = 10
    /\ Len(words) = 3
    /\ Len(result.v.s) = 23

\* C10: calculateEntropy(wordCount) is wordCount * log2(list size), 11 * wordCount
\* for the list of 2048 words (66 for 6 words), and 0 whenever the list is unavailable:
\* undefined, null or empty, the cases in which generatePassphrase reports it not loaded.
C10_Entropy ==
    (op.name = "calculateEntropy" /\ pc = "done") =>
        /\ bip39 = "loaded" => result = Return(Num(11 * op.arg.n))
        /\ (bip39 = "loaded" /\ op.arg.n = 6) => result.v.n = 66
        /\ bip39 # "loaded" => result = Return(Num(0))

-----------------------------------------------------------------------------
(* calculateStrength and getStrengthDescription                            *)

Null == [t |-> "null", n |-> 0, s |-> <<>>]

\* /[a-z]/, /[A-Z]/, /[0-9]/ and /[^a-zA-Z0-9]/ on one character
IsLower(c) == c \in Range(SETS.lower)

IsUpper(c) == c \in Range(SETS.upper)

IsNumber(c) == c \in Range(Digits)

IsSymbol(c) == ~(IsLower(c) \/ IsUpper(c) \/ IsNumber(c))

\* [hasLower, hasUpper, hasNumbers, hasSymbols].filter(Boolean).length
VarietyCount(p) ==
    (IF \E k \in 1..Len(p) : IsLower(p[k]) THEN 1 ELSE 0)
    + (IF \E k \in 1..Len(p) : IsUpper(p[k]) THEN 1 ELSE 0)
    + (IF \E k \in 1..Len(p) : IsNumber(p[k]) THEN 1 ELSE 0)
    + (IF \E k \in 1..Len(p) : IsSymbol(p[k]) THEN 1 ELSE 0)

\* new Set(password).size
UniqueChars(p) == Cardinality(Range(p))

\* a score that is not kept from going below 0
CalculateStrengthUnfloored(pw) ==
    IF pw.t \in {"undefined", "null"} \/ Len(pw.s) = 0 THEN 0
    ELSE Min(Min(Len(pw.s) * 4, 40) + (VarietyCount(pw.s) * 15)
             - ((Len(pw.s) - UniqueChars(pw.s)) * 2), 100)

\* a length contribution that is not capped at 40
CalculateStrengthUncapped(pw) ==
    IF pw.t \in {"undefined", "null"} \/ Len(pw.s) = 0 THEN 0
    ELSE Min(Max(0, (Len(pw.s) * 4) + (VarietyCount(pw.s) * 15)
                    - ((Len(pw.s) - UniqueChars(pw.s)) * 2)), 100)

\* a penalty on the length instead of on the repeated characters
CalculateStrengthLengthPenalty(pw) ==
    IF pw.t \in {"undefined", "null"} \/ Len(pw.s) = 0 THEN 0
    ELSE Min(Max(0, Min(Len(pw.s) * 4, 40) + (VarietyCount(pw.s) * 15)
                    - (Len(pw.s) * 2)), 100)

\* the value calculateStrength(password) returns, pw its argument
CalculateStrength(pw) ==
    IF pw.t \in {"undefined", "null"} \/ Len(pw.s) = 0 THEN 0
    ELSE LET p                 == pw.s
             base              == Min(Len(p) * 4, 40)
             variety           == VarietyCount(p) * 15
             repetitionPenalty == (Len(p) - UniqueChars(p)) * 2
             score             == Max(0, (base + variety) - repetitionPenalty)
         IN  Min(score, 100)

\* the four descriptions (in the source: Russian texts)
LabelWeak       == "Slabyj parol"
LabelMedium     == "Srednij parol"
LabelStrong     == "Nadjozhnyj parol"
LabelVeryStrong == "Ochen nadjozhnyj parol"

\* thresholds that belong to the band below them
GetStrengthDescriptionInclusive(score) ==
    IF score <= 40 THEN LabelWeak
    ELSE IF score <= 70 THEN LabelMedium
    ELSE IF score <= 90 THEN LabelStrong
    ELSE LabelVeryStrong

\* the value getStrengthDescription(score) returns
GetStrengthDescription(score) ==
    IF score < 40 THEN LabelWeak
    ELSE IF score < 70 THEN LabelMedium
    ELSE IF score < 90 THEN LabelStrong
    ELSE LabelVeryStrong

\* the longest run of one character among the passwords scored
MaxRepeat == 30

\* a{n}: n times the character c
Repeat(c, n) == [k \in 1..n |-> c]

Prefixes(cs) == {SubSeq(cs, 1, n) : n \in 1..Len(cs)}

\* a character outside ASCII, one token
NonAscii == "U+00E9"

\* the passwords scored: all the strings of at most 3 characters over a, b, B, 3, !, the
\* runs of one character, the prefixes of three strings without a repeated character,
\* the two passwords the specification compares, and some with a character outside ASCII
StrengthStrings ==
    UNION {[1..n -> {"a", "b", "B", "3", "!"}] : n \in 0..3}
    \cup {Repeat(c, n) : c \in {"a", "7"}, n \in 1..MaxRepeat}
    \cup Prefixes(<<"a","b","c","d","e","f","g","h","i","j","k","l","m">>)
    \cup Prefixes(<<"a","B","3","!","x","y","Z","9","#","k","L","m","4">>)
    \cup Prefixes(<<"q","W","5","?","r","T","6","+","u","I","o","P","8">>)
    \cup {<<"a","a","a","a","a","a">>, <<"a","B","3","!","x","y">>,
          <<NonAscii>>, <<"a", NonAscii, "B", "1">>, <<" ">>}

StrengthInputs == {Undefined, Null} \cup {Str(cs) : cs \in StrengthStrings}

ScoreInputs == 0..100

\* calculateStrength(password)
CalculateStrengthCall(pw) ==
    /\ pc = "idle"
    /\ op' = Call("calculateStrength", pw, NoOptions, Undefined)
    /\ result' = Return(Num(CalculateStrength(pw)))
    /\ pc' = "done"
    /\ UNCHANGED <<bip39, entropy, max, maxValid, value, pool, len, count, sep, i,
                   password, words, draws, discarded, indices>>
    /\ UNCHANGED page

\* getStrengthDescription(score)
GetStrengthDescriptionCall(score) ==
    /\ pc = "idle"
    /\ op' = Call("getStrengthDescription", Num(score), NoOptions, Undefined)
    /\ result' = Return(Str(<<GetStrengthDescription(score)>>))
    /\ pc' = "done"
    /\ UNCHANGED <<bip39, entropy, max, maxValid, value, pool, len, count, sep, i,
                   password, words, draws, discarded, indices>>
    /\ UNCHANGED page

\* the strength scorer
InitStrength == bip39 = "loaded" /\ InitCall

NextStrength ==
    \/ \E p \in StrengthInputs : CalculateStrengthCall(p)
    \/ \E score \in ScoreInputs : GetStrengthDescriptionCall(score)

SpecStrength == InitStrength /\ [][NextStrength]_vars

-----------------------------------------------------------------------------
(* calculateStrength and getStrengthDescription: the claims                *)

InStrength == op.name = "calculateStrength" /\ pc = "done"

\* C11: for every string calculateStrength returns an integer in [0, 100]; it returns 0
\* for an empty or absent password, and it never fails.
C11_ScoreRange ==
    InStrength =>
        /\ result.kind = "return"
        /\ result.v.t = "number"
        /\ result.v.n \in 0..100
        /\ (op.arg.t # "string" \/ op.arg.s = <<>>) => result.v.n = 0

\* a run of 30 characters, whose penalty exceeds its other points, scores 0
C11_Witness ==
    /\ InStrength
    /\ Len(op.arg.s) = 30
    /\ result.v.n = 0

\* the class of a character: lowercase, uppercase, digit, anything else
ClassOf(c) ==
    CASE c \in {"a","b","c","d","e","f","g","h","i","j","k","l","m",
                "n","o","p","q","r","s","t","u","v","w","x","y","z"} -> "lower"
      [] c \in {"A","B","C","D","E","F","G","H","I","J","K","L","M",
                "N","O","P","Q","R","S","T","U","V","W","X","Y","Z"} -> "upper"
      [] c \in {"0","1","2","3","4","5","6","7","8","9"} -> "digit"
      [] OTHER -> "else"

Classes(p) == {ClassOf(p[k]) : k \in 1..Len(p)}

Distinct(p) == Cardinality({p[k] : k \in 1..Len(p)})

\* the score the claim gives a non-empty string
ClaimedScore(p) ==
    LET length == Len(p)
        raw    == (IF 4 * length < 40 THEN 4 * length ELSE 40)
                  + (15 * Cardinality(Classes(p))) - (2 * (length - Distinct(p)))
    IN  IF raw < 0 THEN 0 ELSE IF raw > 100 THEN 100 ELSE raw

\* C12: for every non-empty string p, calculateStrength(p) = min(100, max(0,
\* min(4 * length, 40) + 15 * c - 2 * (length - distinct))), c the number of the classes
\* lowercase, uppercase, digit, anything else that occur in p; "aaaaaa" (29) scores
\* less than "aB3!xy" (84).
C12_ScoreFormula ==
    (InStrength /\ op.arg.t = "string" /\ op.arg.s # <<>>) =>
        /\ result.v.n = ClaimedScore(op.arg.s)
        /\ op.arg.s = <<"a","a","a","a","a","a">> => result.v.n = 29
        /\ op.arg.s = <<"a","B","3","!","x","y">> => result.v.n = 84

\* a password of 13 characters of the four classes scores 100
C12_Witness ==
    /\ InStrength
    /\ Len(op.arg.s) = 13
    /\ Cardinality(Classes(op.arg.s)) = 4
    /\ result.v.n = 100

NoRepeat(p) == Distinct(p) = Len(p)

C14_Thresholds ==
    (op.name = "getStrengthDescription" /\ pc = "done") =>
        LET score == op.arg.n
            label == result.v.s[1]
        IN  /\ result.kind = "return"
            /\ Len(result.v.s) = 1
            /\ label \in {LabelWeak, LabelMedium, LabelStrong, LabelVeryStrong}
            /\ Cardinality({LabelWeak, LabelMedium, LabelStrong, LabelVeryStrong}) = 4
            /\ (label = LabelWeak) <=> (score \in 0..39)
            /\ (label = LabelMedium) <=> (score \in 40..69)
            /\ (label = LabelStrong) <=> (score \in 70..89)
            /\ (label = LabelVeryStrong) <=> (score \in 90..100)
            /\ score \in {0, 39} => label = LabelWeak
            /\ score \in {40, 69} => label = LabelMedium
            /\ score \in {70, 89} => label = LabelStrong
            /\ score \in {90, 100} => label = LabelVeryStrong

\* the lower bound of the highest band has been described
C14_Witness ==
    /\ op.name = "getStrengthDescription" /\ pc = "done"
    /\ op.arg.n = 90
    /\ result.v.s = <<LabelVeryStrong>>

-----------------------------------------------------------------------------
(* secureRandom: termination                                               *)

\* const maxValid = Math.floor(2**32 / max) * max for a max from 2^18 to 2^32, given as
\* [hi, lo]: the quotient q is the integer with q * max <= 2^32 < (q + 1) * max, which
\* lies between 2^16 / (hi + 1) and 2^16 / hi
MaxValidOfWide(m) ==
    LET q == CHOOSE k \in (Base \div (m.hi + 1))..(Base \div m.hi) :
                 /\ ~BigLess(TwoPow32, BigMul(m, k))
                 /\ BigLess(TwoPow32, BigMul(m, k + 1))
    IN  BigMul(m, q)

\* values of max beyond those the calls are followed with: 2^18, 2^18 + 1, 2^20 + 12345,
\* 2^30, 2^31 - 1, 2^31, 2^31 + 1, 3 * 2^30, 2^32 - 1, 2^32
WideMaxInputs ==
    {Big(4, 0), Big(4, 1), Big(16, 12345), Big(16384, 0), Big(32767, 65535),
     Big(32768, 0), Big(32768, 1), Big(49152, 0), Big(65535, 65535), Big(65536, 0)}

\* the do-while loop is run to its end: the handler is not interrupted
SpecRandomFair == SpecRandom /\ WF_vars(SecureRandomDraw)

TwoPow31 == Big(32768, 0)

\* the position of the stream after k more draws
RECURSIVE PosAfter(_)
PosAfter(k) ==
    IF k = 0 THEN entropy.pos ELSE (((PosAfter(k - 1) - 1) + entropy.stride) % 5) + 1

\* the stream delivers, now or later, a value below the threshold of the running loop
StreamAccepts == \E k \in 0..4 : BigLess(DrawAt(PosAfter(k), max, maxValid), maxValid)

Looping == op.name = "secureRandom" /\ pc = "draw"

\* the threshold is above 2^31: more than half of the 32-bit draws are accepted
ThresholdAboveHalf ==
    /\ Looping => BigLess(TwoPow31, maxValid)
    /\ \A m \in WideMaxInputs :
          /\ BigLess(TwoPow31, MaxValidOfWide(m))
          /\ ~BigLess(TwoPow32, MaxValidOfWide(m))

\* C15: for every max the threshold floor(2^32 / max) * max is above 2^31, and the loop
\* of secureRandom returns whenever the entropy source goes on to deliver a value below
\* the threshold: it does not go round for ever (max = 10, 88, 2048 among others).
C15_LoopReturns ==
    /\ []ThresholdAboveHalf
    /\ (Looping /\ StreamAccepts) ~> (op.name = "secureRandom" /\ Returned)

\* the loop has returned after two discarded draws
C15_Witness ==
    /\ op.name = "secureRandom" /\ Returned
    /\ op.arg.n = 88
    /\ Len(discarded) = 2

-----------------------------------------------------------------------------
(* The handlers of the page.  A handler runs to its end before another     *)
(* event is taken: an event is taken only when no call is running.         *)

\* the text shown when no character set is selected
TextSelectCharset == "Vyberite hotya by odin nabor simvolov"
\* the text the catch of handleGeneratePassword shows
TextPasswordError == "Oshibka generacii parolya"
\* the text the catch of handleGeneratePassphrase shows
TextPassphraseError == "Oshibka generacii passphrase"
\* the two literal parts of the hint, around the number of bits
HintPrefix == "Entropiya: ~"
HintSuffix == " bit"
\* the text showCopyFeedback shows
TextCopied == "Skopirovano!"
\* the text shown when the copy failed
TextCopyError == "Oshibka kopirovaniya"

\* trailing white space is dropped
RECURSIVE TrimEnd(_)
TrimEnd(cs) ==
    IF cs # <<>> /\ cs[Len(cs)] = " " THEN TrimEnd(SubSeq(cs, 1, Len(cs) - 1)) ELSE cs

\* text.trim()
Trim(cs) == TrimEnd(TrimStart(cs))

\* x.toFixed(1) for an integer, an infinity or NaN
ToFixed1(x) ==
    CASE x.t = "number"    -> ToStr(x) \o <<".", "0">>
      [] x.t = "NaN"       -> <<"N","a","N">>
      [] x.t = "Infinity"  -> <<"I","n","f","i","n","i","t","y">>
      [] x.t = "-Infinity" -> <<"-","I","n","f","i","n","i","t","y">>

\* the template literal of the hint
HintText(x) == <<HintPrefix>> \o ToFixed1(x) \o <<HintSuffix>>

\* the elements of class output (a click on any other element copies nothing)
OutputElements == {"pwdResult", "phraseResult"}

\* the delays of the two setTimeout calls
FeedbackDelay == 1500
ErrorDelay == 1000

\* passwords generated and texts copied in one run of the page
MaxGenerated == 2
MaxCopied == 2

\* the call is over: control is back in the event loop
BackToEventLoop ==
    /\ pc' = "idle"
    /\ draws' = 0
    /\ discarded' = <<>>
    /\ indices' = <<>>

\* handleGeneratePassword, up to the for loop of generatePassword
HandleGeneratePassword ==
    LET options == [lower |-> form.pLower, upper |-> form.pUpper,
                    numbers |-> form.pNumbers, symbols |-> form.pSymbols]
        length  == OrDefault(ParseInt(Str(form.pwdLength)), 16)
    IN  /\ Len(generated) < MaxGenerated
        /\ IF ~options.lower /\ ~options.upper /\ ~options.numbers /\ ~options.symbols
           THEN /\ pc = "idle"
                /\ textContent' = [textContent EXCEPT !.pwdResult = <<TextSelectCharset>>]
                /\ UNCHANGED <<bip39, entropy, pc, op, max, maxValid, value, pool, len,
                               count, sep, i, password, words, result, draws, discarded,
                               indices, form, strengthWidth, promises, timers, clipboard,
                               generated>>
           ELSE GeneratePasswordCall(Num(length), options)

\* handleGeneratePassword, from the return of generatePassword or from the catch
HandleGeneratePasswordReturn ==
    /\ pc = "done"
    /\ op.name = "generatePassword"
    /\ IF result.kind = "return"
       THEN /\ textContent' = [textContent EXCEPT !.pwdResult = result.v.s]
            /\ strengthWidth' = CalculateStrength(result.v)
            /\ generated' = Append(generated, result.v.s)
       ELSE /\ textContent' = [textContent EXCEPT !.pwdResult = <<TextPasswordError>>]
            /\ UNCHANGED <<strengthWidth, generated>>
    /\ BackToEventLoop
    /\ UNCHANGED <<bip39, entropy, op, max, maxValid, value, pool, len, count, sep, i,
                   password, words, result, form, promises, timers, clipboard>>

\* handleGeneratePassphrase, up to the for loop of generatePassphrase
HandleGeneratePassphrase ==
    LET wordCount == OrDefault(ParseInt(Str(form.wordCount)), 6)
        separator == IF form.separator = <<>> THEN <<"-">> ELSE form.separator
    IN  GeneratePassphraseCall(Num(wordCount), Str(separator))

\* handleGeneratePassphrase, from the return of generatePassphrase or from the catch:
\* calculateEntropy is called with the wordCount generatePassphrase was called with
HandleGeneratePassphraseReturn ==
    /\ pc = "done"
    /\ op.name = "generatePassphrase"
    /\ IF result.kind = "return"
       THEN textContent' = [textContent EXCEPT
                               !.phraseResult = result.v.s,
                               !.phraseHint = HintText(EntropyOf(op.arg.n))]
       ELSE textContent' = [textContent EXCEPT
                               !.phraseResult = <<TextPassphraseError>>,
                               !.phraseHint = <<>>]
    /\ BackToEventLoop
    /\ UNCHANGED <<bip39, entropy, op, max, maxValid, value, pool, len, count, sep, i,
                   password, words, result, form, strengthWidth, promises, timers,
                   clipboard, generated>>

\* handleOutputClick on an element of class output whose trimmed text is not empty: the
\* text goes to copyToClipboard, whose promise is settled later
HandleOutputClick(el) ==
    LET text == Trim(textContent[el])
    IN  /\ pc = "idle"
        /\ Len(clipboard) < MaxCopied
        /\ text # <<>>
        /\ clipboard' = Append(clipboard, [text |-> text, generation |-> Len(generated)])
        /\ promises' = Append(promises, el)
        /\ UNCHANGED <<bip39, entropy, pc, op, max, maxValid, value, pool, len, count, sep,
                       i, password, words, result, draws, discarded, indices, form,
                       textContent, strengthWidth, timers, generated>>

\* the then-callback of handleOutputClick: showCopyFeedback on success, the error
\* feedback otherwise; either keeps the text the element has now for its timer
CopyToClipboardThen(success) ==
    /\ pc = "idle"
    /\ promises # <<>>
    /\ LET el == Head(promises)
       IN  /\ timers' = Append(timers,
                            [target |-> el, originalText |-> textContent[el],
                             delay |-> IF success THEN FeedbackDelay ELSE ErrorDelay])
           /\ textContent' = [textContent EXCEPT
                                 ![el] = <<IF success THEN TextCopied ELSE TextCopyError>>]
    /\ promises' = Tail(promises)
    /\ UNCHANGED <<bip39, entropy, pc, op, max, maxValid, value, pool, len, count, sep,
                   i, password, words, result, draws, discarded, indices, form,
                   strengthWidth, clipboard, generated>>

\* the k-th pending timer is due before every other one: no timer set before it has a
\* delay as short as its own
Due(k) == \A j \in 1..(k - 1) : timers[j].delay > timers[k].delay

\* the setTimeout callback: element.textContent = originalText
TimerFires(k) ==
    /\ pc = "idle"
    /\ k \in 1..Len(timers)
    /\ Due(k)
    /\ textContent' = [textContent EXCEPT ![timers[k].target] = timers[k].originalText]
    /\ timers' = SubSeq(timers, 1, k - 1) \o SubSeq(timers, k + 1, Len(timers))
    /\ UNCHANGED <<bip39, entropy, pc, op, max, maxValid, value, pool, len, count, sep,
                   i, password, words, result, draws, discarded, indices, form,
                   strengthWidth, promises, clipboard, generated>>

\* the passphrase tab: the inputs as the user left them, the generate button
PassphraseForms ==
    {[FormBlank EXCEPT !.wordCount = w, !.separator = sp] :
        w \in {<<>>, <<"0">>, <<"-","1">>, <<"2">>, <<"3">>, <<"6">>, <<"1","2">>,
               <<"1","3">>, <<"a","b","c">>},
        sp \in {<<>>, <<"-">>, <<" ">>}}

InitPassphrasePage ==
    /\ bip39 \in {"undefined", "null", "empty", "loaded"}
    /\ InitLocals
    /\ form \in PassphraseForms
    /\ InitPage

NextPassphrasePage ==
    \/ HandleGeneratePassphrase
    \/ GeneratePassphraseFor
    \/ GeneratePassphraseDraw
    \/ HandleGeneratePassphraseReturn

SpecPassphrasePage == InitPassphrasePage /\ [][NextPassphrasePage]_vars

\* the last press of the generate button has put a passphrase on the page
PassphraseShown ==
    /\ pc = "idle"
    /\ op.name = "generatePassphrase"
    /\ result.kind = "return"

\* C16: after every successful handleGeneratePassphrase, whatever word count was entered
\* (0, below 3 and above 12 included), the hint shows 11 bits times the number of words
\* of the passphrase shown in the result.
C16_HintMatchesPassphrase ==
    PassphraseShown =>
        /\ textContent.phraseResult = Join(words, sep)
        /\ textContent.phraseHint = HintText(Num(11 * Len(words)))

-----------------------------------------------------------------------------
(* The password tab with its output clicked: generations, clicks, settled  *)
(* promises and timers in any order.                                       *)

PasswordForms ==
    {[FormBlank EXCEPT !.pwdLength = <<"6">>, !.pNumbers = TRUE, !.pLower = l] :
        l \in BOOLEAN}

InitCopy ==
    /\ bip39 = "loaded"
    /\ InitLocals
    /\ form \in PasswordForms
    /\ InitPage

NextCopy ==
    \/ HandleGeneratePassword
    \/ GeneratePasswordFor
    \/ GeneratePasswordDraw
    \/ HandleGeneratePasswordReturn
    \/ \E el \in OutputElements : HandleOutputClick(el)
    \/ \E success \in BOOLEAN : CopyToClipboardThen(success)
    \/ \E k \in 1..MaxCopied : TimerFires(k)

SpecCopy == InitCopy /\ [][NextCopy]_vars

\* nothing is pending: no call, no promise, no timer
Quiet == pc = "idle" /\ promises = <<>> /\ timers = <<>>

\* C17: in every interleaving of output clicks, generate presses and restore timers, once
\* no timer is pending the output shows the password generated last, and every text
\* handed to the clipboard is the password that was the last generated when it was
\* clicked: never a feedback text, never a password a later generation had replaced.
C17_OutputAndClipboard ==
    /\ (Quiet /\ generated # <<>>) => textContent.pwdResult = generated[Len(generated)]
    /\ \A k \in 1..Len(clipboard) :
          /\ clipboard[k].generation >= 1
          /\ clipboard[k].text = generated[clipboard[k].generation]

====
